---- MODULE Spec2Model ----
(***************************************************************************)
(* Flatter: an object-graph persistence engine over SQLite.                *)
(* The model follows src/Flatter.ts: save / transact / dbValues / the      *)
(* OBJECT conversion (JSON.stringify with a replacer) on the write side    *)
(* and loadWithUUID (JSON.parse with a reviver) on the read side.          *)
(* A top-level call runs synchronously to its end; the model executes it   *)
(* as a deterministic sequence of steps over an explicit call stack, so    *)
(* that a recursion that never ends is a behaviour and not a failure of    *)
(* the evaluation.  The statements a call issues are recorded, in order,   *)
(* in the history variable log.                                            *)
(***************************************************************************)
EXTENDS Integers, Sequences, FiniteSets, TLC

\* ------------------------------------------------------------------ bounds
NObj == 3         \* entities constructed by the application
MaxDepth == 5     \* nested save()/loadWithUUID() calls the JS stack holds
MaxSaves == 1     \* top-level calls in one behaviour of SpecSave
MaxOps == 3       \* top-level calls in one behaviour of Spec
MaxProcesses == 2 \* runs of the program on one database file

Objs == 1..NObj
UUIDs == 1..NObj                 \* crypto.randomUUID(): object i got uuid i
Classes == {"A", "B"}
SavepointName == "Flatter_save"

\* ------------------------------------------------------------- JS values
VNull == [k |-> "null"]
VStr(v) == [k |-> "str", v |-> v]
VNum(n) == [k |-> "num", v |-> n]
VDate(t) == [k |-> "date", t |-> t]    \* a Date: t is its time value, in ms
VIso(t) == [k |-> "iso", t |-> t]      \* the string Date(t).toISOString()
VInvalidDate == [k |-> "invalid"]      \* a Date whose time value is NaN
VRef(o) == [k |-> "ref", o |-> o]
VUndef == [k |-> "undef"]
VPlain(p) == [k |-> "plain", p |-> p]  \* a plain object: <<key, value>> pairs

\* JSON text, as a tree
JNull == [k |-> "null"]
JStr(v) == [k |-> "str", v |-> v]
JNum(n) == [k |-> "num", v |-> n]
JIso(t) == [k |-> "iso", t |-> t]      \* the string Date(t).toJSON()
JJulian(n) == [k |-> "julian", v |-> n] \* a julian date with six decimals:
                                        \* n millionths of a day after the epoch
JObj(p) == [k |-> "obj", p |-> p]     \* p: the <<key, value>> pairs, in order
JTok(c, u) == JObj(<< <<"class", JStr(c)>>, <<"uuid", JStr(u)>> >>)

\* enumeration order of own properties (insertion order of the class body)
KeyOrder == <<"uuid", "name", "left", "right", "class">>

VARIABLES
  heap,               \* in-memory Flatter instances: Seq of [cls, own, proto]
  decl,               \* how the class bodies declare their fields
  schema,             \* the database: table name -> column definitions
  process,            \* the run of the program, counted from 1
  tableInfo,          \* Flatter.tableInfo: class name -> columns
  TypeCache,          \* Flatter.TypeCache: registered class names
  DBTypeConversions,  \* Flatter.DBTypeConversions
  rows,               \* the connection's view of the tables
  sp,                 \* the connection's savepoint stack
  stack,              \* call stack of the running top-level call
  cache,              \* operation cache of the running top-level call
  exc,                \* exception being propagated, "none" otherwise
  log,                \* statements and calls of the last top-level call
  result,             \* the last top-level call and its outcome
  pre,                \* rows and savepoint stack before the last call
  saved,              \* own properties an entity had at its last successful
                      \* top-level save, by uuid
  ops                 \* top-level calls made so far

vars == <<heap, decl, schema, process, tableInfo, TypeCache, DBTypeConversions, rows, sp,
          stack, cache, exc, log, result, pre, saved, ops>>

\* ------------------------------------------------------- class registry
ClassOf(o) == IF o = 1 THEN "A" ELSE "B"

Pluralize(name) == name \o "s"

tablename(c) == Pluralize(c)

Tables == {tablename(c) : c \in Classes}

\* Pluralize.singular, on the names that occur as column types
Singular(t) == IF \E c \in Classes : t = Pluralize(c)
               THEN CHOOSE c \in Classes : t = Pluralize(c)
               ELSE t

\* the PropertyDefinition nodes acorn finds in the class body
\* (class A has two reference fields, class B one)
\* (number: typeof value === 'number'; int: parseInt(value))
StrLit == [type |-> "Literal", number |-> FALSE, int |-> 0, callee |-> ""]
NumLit(n) == [type |-> "Literal", number |-> TRUE, int |-> n, callee |-> ""]
RefAst(d, target) ==
  IF d = "new"
  THEN [type |-> "NewExpression", number |-> FALSE, int |-> 0, callee |-> target]
  ELSE [type |-> "ObjectExpression", number |-> FALSE, int |-> 0, callee |-> ""]

DateAst == [type |-> "NewExpression", number |-> FALSE, int |-> 0, callee |-> "Date"]

\* d[c] tells how class c declares its reference fields: "new" (= new B()),
\* "object" (= {}), or "none" (not in the class body, set from a template);
\* d.name how the classes declare the field name: "string" (= ""),
\* "integer" (= 1), "float" (= 0), "date" (= new Date()) or "none", or
\* "mixed" (= "" in class A, = 1 in class B)
ClassBody(c, d) ==
  LET refs == IF c = "A"
              THEN << <<"left", RefAst(d[c], "B")>>, <<"right", RefAst(d[c], "B")>> >>
              ELSE << <<"left", RefAst(d[c], "A")>> >>
      name == CASE d.name = "string" -> << <<"name", StrLit>> >>
                [] d.name = "integer" -> << <<"name", NumLit(1)>> >>
                [] d.name = "float" -> << <<"name", NumLit(0)>> >>
                [] d.name = "date" -> << <<"name", DateAst>> >>
                [] d.name = "mixed" -> << <<"name", IF c = "A" THEN StrLit ELSE NumLit(1)>> >>
                [] OTHER -> <<>>
  IN name \o (IF d[c] = "none" THEN <<>> ELSE refs)

\* class bodies that can be instantiated (A and B cannot both construct
\* an instance of the other in a field initializer)
RefDecls ==
  { [A |-> "new", B |-> "none"], [A |-> "new", B |-> "object"],
    [A |-> "object", B |-> "new"], [A |-> "object", B |-> "object"],
    [A |-> "none", B |-> "none"] }

NameDecls == {"string", "integer", "float", "date", "none"}

Decl(rd, nd) == [A |-> rd.A, B |-> rd.B, name |-> nd]

astTypeTranslation ==
  [String |-> "TEXT", Date |-> "DATETIME", Integer |-> "INTEGER",
   Float |-> "REAL", OBJECT |-> "OBJECT"]

\* init(): the column list of the CREATE TABLE statement it derives
sqlFieldType(ast) ==
  IF ast.type = "Literal"
  THEN IF ~ast.number THEN "String"
       ELSE IF ast.int # 0 THEN "Integer" ELSE "Float"
  ELSE IF ast.type \in {"ObjectExpression", "ArrayExpression"} THEN "OBJECT"
  ELSE ast.callee

sqlFields(body) ==
  << <<"uuid", "UUID">> >>
  \o [i \in 1..Len(body) |-> <<body[i][1], sqlFieldType(body[i][2])>>]
  \o << <<"flatter", "OBJECT">> >>

\* PRAGMA table_info + PRAGMA foreign_key_list, as cached by init()
TRowInfo(f) ==
  IF f[2] \in DOMAIN astTypeTranslation
  THEN [name |-> f[1], type |-> astTypeTranslation[f[2]], fk |-> FALSE]
  ELSE [name |-> f[1], type |-> f[2], fk |-> f[1] # "uuid"]

init(c, d) ==
  LET fs == sqlFields(ClassBody(c, d))
  IN [i \in 1..Len(fs) |-> TRowInfo(fs[i])]

\* a database without the table
NoTable == <<>>

\* PRAGMA table_info / foreign_key_list of a table with the columns fs
table_info(fs) == [i \in 1..Len(fs) |-> TRowInfo(fs[i])]

dbColumns(c) == [i \in 1..Len(tableInfo[c]) |-> tableInfo[c][i].name]

\* the conversions declared at module load
DefaultConversions ==
  [UUID |-> [toPlaceholder |-> "", toDBValue |-> "", toJSValue |-> ""],
   TEXT |-> [toPlaceholder |-> "", toDBValue |-> "", toJSValue |-> ""],
   DATETIME |-> [toPlaceholder |-> "", toDBValue |-> "julian", toJSValue |-> "Date"],
   OBJECT |-> [toPlaceholder |-> "json(?)", toDBValue |-> "stringify", toJSValue |-> ""]]

\* a dbPlaceholders that would not read the conversion of a column before
\* the statement is run
dbPlaceholdersLazy(c) == FALSE

\* dbPlaceholders: "TypeError" when a column type has no entry to read from
dbPlaceholdersThrow(c) ==
  \E i \in 1..Len(tableInfo[c]) :
     LET e == tableInfo[c][i]
     IN IF Singular(e.type) \in DOMAIN tableInfo
        THEN "UUID" \notin DOMAIN DBTypeConversions
        ELSE e.type \notin DOMAIN DBTypeConversions

\* ----------------------------------------------------------- the store
NoRows == [t \in Tables |-> {}]

\* a plain INSERT, which never replaces
Insert(rs, t, row) == [rs EXCEPT ![t] = @ \cup {row}]

\* INSERT OR REPLACE INTO t (...) VALUES (...): uuid is the primary key
Upsert(rs, t, row) ==
  [rs EXCEPT ![t] = {r \in rs[t] : r.uuid # row.uuid} \cup {row}]

RowsOf(rs, t, u) == {r \in rs[t] : r.uuid = u}

\* index of the most recent savepoint called name; 0 when there is none
Innermost(stk, name) ==
  LET is == {i \in 1..Len(stk) : stk[i].name = name}
  IN IF is = {} THEN 0 ELSE CHOOSE i \in is : \A j \in is : j <= i

\* what other connections see: nothing written under an open savepoint
Committed(rs, stk) == IF stk = <<>> THEN rs ELSE stk[1].snap

\* ------------------------------------------------------------- events
Ev(e, o, a, b) == [e |-> e, o |-> o, a |-> a, b |-> b]

\* ------------------------------------------------------------ the cache
NoEntry == [k |-> "none", v |-> 0]
Placeholder(u) == [k |-> "ph", v |-> u]
Materialized(o) == [k |-> "obj", v |-> o]
NoCache == [toplevel |-> 0, m |-> [u \in UUIDs |-> NoEntry]]

uuidOf(hp, o) == hp[o].own.uuid.v

\* own enumerable properties of an object, in enumeration order
RECURSIVE KeysFrom(_, _)
KeysFrom(dom, i) ==
  IF i > Len(KeyOrder) THEN <<>>
  ELSE (IF KeyOrder[i] \in dom THEN <<KeyOrder[i]>> ELSE <<>>) \o KeysFrom(dom, i + 1)

OwnKeys(obj) == KeysFrom(DOMAIN obj.own, 1)

\* Reflect.get(this, name): an own property, the flatter getter, or the
\* value the prototype (a default-constructed instance) holds
Get(o, name) ==
  IF name = "flatter" THEN VRef(o)
  ELSE IF name \in DOMAIN heap[o].own THEN heap[o].own[name]
  ELSE IF name \in DOMAIN heap[o].proto THEN heap[o].proto[name]
  ELSE VUndef

\* new Date(v): an ISO string gives back the instant it was written from,
\* a number is a time value, null is time value 0
NewDate(v) ==
  CASE v.k = "iso" -> VDate(v.t)
    [] v.k = "num" -> VDate(v.v)
    [] v.k = "null" -> VDate(0)
    [] v.k = "date" -> v
    [] OTHER -> VInvalidDate

\* julian(date): the julian date with six decimals (86.4 ms each), as the
\* count of millionths of a day since the epoch, rounded
julian(v) ==
  LET t == IF v.k \in {"date", "iso"} THEN v.t ELSE IF v.k = "num" THEN v.v ELSE 0
  IN JJulian((t * 10 + 432) \div 864)

\* JSON.stringify of a value that is not an object to descend into
\* (a Date is written by its toJSON)
ScalarJSON(v) ==
  CASE v.k = "str" -> JStr(v.v)
    [] v.k = "num" -> JNum(v.v)
    [] v.k \in {"date", "iso"} -> JIso(v.t)
    [] OTHER -> JNull

\* JSON.parse of a value that is not an object
Revive(jv) ==
  CASE jv.k = "str" -> VStr(jv.v)
    [] jv.k = "num" -> VNum(jv.v)
    [] jv.k = "iso" -> VIso(jv.t)
    [] OTHER -> VNull

\* ----------------------------------------------------------- call stack
\* a save() whose transact closure is running: own is its savepoint, i the
\* next column of dbValues, acc the values of the columns before it
Frame(f, o, own, e, props, c, u) ==
  [f |-> f, o |-> o, own |-> own, e |-> e, props |-> props, cls |-> c, u |-> u,
   i |-> 1, acc |-> <<>>]
SaveF(o, own) == Frame("save", o, own, VNull, <<>>, "", 0)
\* JSON.stringify serializing the properties props of an object (o when it
\* is a Flatter instance, 0 when it is a plain one) for toDBValue(e): i is
\* the next property, acc the pairs written so far
SerF(o, props, e) == Frame("ser", o, <<0, 0>>, e, props, "", 0)
\* loadWithUUID(u) of class c, JSON.parse reviving the properties props of
\* the payload: i is the next property, acc the revived pairs
LoadF(c, u, props) == Frame("load", 0, <<0, 0>>, VNull, props, c, u)
\* JSON.parse reviving the properties of a nested object of the payload
RevF(props) == Frame("rev", 0, <<0, 0>>, VNull, props, "", 0)
\* load(criteria) of class c mapping the selected identifiers us to
\* instances: i is the next identifier, acc the instances so far
MapF(c, us) ==
  Frame("map", 0, <<0, 0>>, VNull, [i \in 1..Len(us) |-> <<us[i], JStr(us[i])>>], c, 0)

\* the own enumerable properties of a Flatter instance, in order
Props(obj) == [i \in 1..Len(OwnKeys(obj)) |-> <<OwnKeys(obj)[i], obj.own[OwnKeys(obj)[i]]>>]

Running == result.outcome = "running"
Top == stack[Len(stack)]
Below == SubSeq(stack, 1, Len(stack) - 1)

\* nested save() / loadWithUUID() calls on the stack
Depth(st) == Cardinality({i \in 1..Len(st) : st[i].f \in {"save", "load"}})

\* the objects JSON.stringify is in the middle of serializing: the ser
\* frames above the innermost save frame
SerPath(st) ==
  {st[i].o : i \in {j \in 1..Len(st) :
                      /\ st[j].f = "ser"
                      /\ st[j].o # 0
                      /\ \A k \in j..Len(st) : st[k].f = "ser"}}

\* a call returns v to the frame on top of st: a save frame takes it as the
\* value of its column, the others as the value of the property at hand
Deliver(st, v) ==
  IF st = <<>> THEN st
  ELSE LET fr == st[Len(st)]
       IN IF fr.f # "save"
          THEN [st EXCEPT ![Len(st)] =
                  [fr EXCEPT !.acc = Append(@, <<fr.props[fr.i][1], v>>),
                             !.i = @ + 1]]
          ELSE [st EXCEPT ![Len(st)] = [fr EXCEPT !.acc = Append(@, v), !.i = @ + 1]]

Skip(st) == [st EXCEPT ![Len(st)].i = @ + 1]

\* ------------------------------------------------------------ save side
\* identity of the savepoint the next SAVEPOINT statement opens: the
\* top-level call it belongs to and its rank among that call's savepoints
NextSavepoint(top) ==
  IF top THEN <<ops + 1, 1>>
  ELSE <<ops, 1 + Cardinality({i \in 1..Len(log) : log[i].e = "savepoint"})>>

\* where: "stack" (call stack exhausted), "placeholders" (dbPlaceholders),
\* "lookup" (dbValues finds no conversion entry), "converter" (a toDBValue
\* function throws), "load" (loadWithUUID)
Throw(err, where, o, st, lg) ==
  /\ exc' = err
  /\ stack' = st
  /\ log' = Append(lg, Ev("throw", o, where, 0))
  /\ UNCHANGED <<rows, sp, cache>>

\* SAVEPOINT name
Begin(stk, name, id) == Append(stk, [name |-> name, snap |-> rows, id |-> id])

\* RELEASE SAVEPOINT name: the most recent savepoint of that name and the
\* savepoints opened after it leave the stack
Release(stk, name) == SubSeq(stk, 1, Innermost(stk, name) - 1)

\* ROLLBACK TRANSACTION TO SAVEPOINT name: the rows go back to what they
\* were at the most recent savepoint of that name, which stays open; the
\* savepoints opened after it are cancelled
RollbackRows(stk, name) == stk[Innermost(stk, name)].snap
RollbackStack(stk, name) == SubSeq(stk, 1, Innermost(stk, name))

\* a save() that would look at the top-level entity only
alreadyDoneTopOnly(o) == uuidOf(heap, o) = uuidOf(heap, cache.toplevel)

\* "we've already done this": the entity is the top-level one, or the
\* cache of the call has an entry for it
alreadyDone(o) ==
  \/ uuidOf(heap, o) = uuidOf(heap, cache.toplevel)
  \/ cache.m[uuidOf(heap, o)] # NoEntry

\* a cache that would be kept from one top-level save to the next
newCacheKept(o, u) ==
  [toplevel |-> o, m |-> [cache.m EXCEPT ![u] = Placeholder(u)]]

\* if (!cache): cache = { toplevel: this }; cache[this.uuid] = { uuid }
newCache(o, u) ==
  [toplevel |-> o, m |-> [NoCache.m EXCEPT ![u] = Placeholder(u)]]

\* a save that would open its savepoint before it looks at the cache
returnTrueLate(o, st) ==
  /\ stack' = st
  /\ log' = Append(log, Ev("skip", o, uuidOf(heap, o), 0))
  /\ sp' = Begin(sp, SavepointName, NextSavepoint(FALSE))
  /\ UNCHANGED <<rows, cache, exc>>

\* we've already done this: return true
returnTrue(o, st) ==
  /\ stack' = st
  /\ log' = Append(log, Ev("skip", o, uuidOf(heap, o), 0))
  /\ UNCHANGED <<rows, sp, cache, exc>>

\* save(cache?) up to the point where transact() has opened its savepoint
\* and is about to run the closure; top is TRUE when no cache is passed and
\* st is the stack of the caller
save(o, top, st) ==
  LET c == heap[o].cls
      u == uuidOf(heap, o)
      id == NextSavepoint(top)
  IN IF Depth(st) >= MaxDepth
     THEN Throw("RangeError", "stack", o, st, log)
     ELSE IF c \notin DOMAIN tableInfo \/ dbPlaceholdersThrow(c)
     THEN Throw("TypeError", "placeholders", o, st, IF top THEN <<>> ELSE log)
     ELSE IF ~top /\ alreadyDone(o)
     THEN returnTrue(o, st)
     ELSE /\ cache' = IF top THEN newCache(o, u) ELSE cache
          /\ sp' = Begin(sp, SavepointName, id)
          /\ stack' = Append(st, SaveF(o, id))
          /\ log' = Append(IF top THEN <<>> ELSE log, Ev("savepoint", o, id, 0))
          /\ UNCHANGED <<rows, exc>>

\* o.save() called by the application, without a cache
TopSave(o) ==
  /\ ~Running
  /\ save(o, TRUE, <<>>)
  /\ result' = [op |-> "save", o |-> o, cls |-> heap[o].cls, outcome |-> "running",
                ret |-> 0, rets |-> <<>>, args |-> <<>>]
  /\ pre' = [rows |-> rows, sp |-> sp]
  /\ ops' = ops + 1
  /\ UNCHANGED <<heap, decl, schema, process, tableInfo, TypeCache, DBTypeConversions, saved>>

\* a foreign-key column that would get the token of the entity
fkToken(value) == JTok(heap[value.o].cls, uuidOf(heap, value.o))

\* the value of a foreign-key column holding an entity: its uuid
fkValue(value) == JStr(uuidOf(heap, value.o))

\* dbValues: the value of the next column
dbValues ==
  /\ Running /\ exc = "none" /\ stack # <<>>
  /\ Top.f = "save"
  /\ Top.i <= Len(tableInfo[heap[Top.o].cls])
  /\ LET row == tableInfo[heap[Top.o].cls][Top.i]
         value == Get(Top.o, row.name)
     IN IF row.fk /\ value.k = "ref"
        THEN /\ stack' = Deliver(stack, fkValue(value))
             /\ UNCHANGED <<exc, log>>
        ELSE IF row.type \notin DOMAIN DBTypeConversions
        THEN /\ exc' = "TypeError"                 \* infoRow is undefined
             /\ log' = Append(log, Ev("throw", Top.o, "lookup", 0))
             /\ UNCHANGED stack
        ELSE LET toDBValue == DBTypeConversions[row.type].toDBValue
             IN IF toDBValue = "stringify" /\ value.k \in {"ref", "plain"}
                THEN /\ stack' = Append(stack,
                                  IF value.k = "ref"
                                  THEN SerF(value.o, Props(heap[value.o]), value)
                                  ELSE SerF(0, value.p, value))
                     /\ UNCHANGED <<exc, log>>
                ELSE /\ stack' = Deliver(stack, IF toDBValue = "julian"
                                                THEN julian(value)
                                                ELSE ScalarJSON(value))
                     /\ UNCHANGED <<exc, log>>
  /\ UNCHANGED <<heap, decl, schema, process, tableInfo, TypeCache, DBTypeConversions, rows, sp,
                 cache, result, pre, saved, ops>>

\* a replacer that would leave the class out of the token
proxyBare(value) == JObj(<< <<"uuid", JStr(uuidOf(heap, value.o))>> >>)

\* const proxy = { class: value.constructor.name, uuid: value.uuid }
proxy(value) == JTok(heap[value.o].cls, uuidOf(heap, value.o))

\* a replacer that would return the proxy of an entity without saving it
saveEmbeddedNot(value) ==
  /\ stack' = Deliver(stack, proxy(value))
  /\ UNCHANGED <<rows, sp, cache, exc, log>>

\* value.save( cache ); return proxy
saveEmbedded(value) == save(value.o, FALSE, Deliver(stack, proxy(value)))

\* a replacer that would return as it is only the object at the root of
\* the serialization
isSerializedOnce(value) ==
  /\ Top.e.k = "ref" /\ uuidOf(heap, Top.e.o) = uuidOf(heap, value.o)
  /\ value.o \notin SerPath(stack)

\* value instanceof Flatter && e.uuid == value.uuid
isSerialized(value) ==
  Top.e.k = "ref" /\ uuidOf(heap, Top.e.o) = uuidOf(heap, value.o)

\* OBJECT.toDBValue: JSON.stringify hands the next property of the object
\* it is serializing to the replacer
replacer ==
  /\ Running /\ exc = "none" /\ stack # <<>>
  /\ Top.f = "ser"
  /\ Top.i <= Len(Top.props)
  /\ LET value == Top.props[Top.i][2]
     IN IF value.k = "ref"
        THEN IF isSerialized(value)
             THEN \* returned as it is: JSON.stringify descends into it
                  IF value.o \in SerPath(stack)
                  THEN Throw("TypeError", "converter", value.o, stack, log) \* circular
                  ELSE /\ stack' = Append(stack, SerF(value.o, Props(heap[value.o]), Top.e))
                       /\ UNCHANGED <<rows, sp, cache, exc, log>>
             ELSE saveEmbedded(value)
        ELSE /\ stack' = IF value.k = "undef" THEN Skip(stack)
                         ELSE IF value.k = "plain"
                         THEN Append(stack, SerF(0, value.p, Top.e))
                         ELSE Deliver(stack, ScalarJSON(value))
             /\ UNCHANGED <<rows, sp, cache, exc, log>>
  /\ UNCHANGED <<heap, decl, schema, process, tableInfo, TypeCache, DBTypeConversions,
                 result, pre, saved, ops>>

\* JSON.stringify has serialized every property of an object
stringifyReturn ==
  /\ Running /\ exc = "none" /\ stack # <<>>
  /\ Top.f = "ser"
  /\ Top.i > Len(Top.props)
  /\ stack' = Deliver(Below, JObj(Top.acc))
  /\ UNCHANGED <<heap, decl, schema, process, tableInfo, TypeCache, DBTypeConversions, rows, sp,
                 cache, exc, log, result, pre, saved, ops>>

\* a unit of work that could run its statement before dbValues has the
\* values of all the columns
valuesReadyAtOnce == TRUE

\* const values = this.dbValues( cache ) has returned: every column has
\* its value
valuesReady == Top.i > Len(tableInfo[heap[Top.o].cls])

\* the rest of the closure (stmt.run, cache[theUUID] = this), transact's
\* release, and the rest of save()
saveReturn ==
  /\ Running /\ exc = "none" /\ stack # <<>>
  /\ Top.f = "save"
  /\ valuesReady
  /\ LET o == Top.o
         u == uuidOf(heap, o)
         row == [uuid |-> u, vals |-> Top.acc]
         i == Innermost(sp, SavepointName)
     IN /\ rows' = Upsert(rows, tablename(heap[o].cls), row)
        /\ sp' = Release(sp, SavepointName)
        /\ cache' = [cache EXCEPT !.m[u] = Placeholder(u)]
        /\ log' = log \o << Ev("write", o, u, 0),
                            Ev("cache", o, u, 0),
                            Ev("release", o, sp[i].id, Top.own) >>
  /\ stack' = Below
  /\ UNCHANGED <<heap, decl, schema, process, tableInfo, TypeCache, DBTypeConversions,
                 exc, result, pre, saved, ops>>

\* ------------------------------------------------------------ load side
\* the value of property key of a parsed object, VUndef when it has none
Prop(pairs, key) ==
  IF \E i \in 1..Len(pairs) : pairs[i][1] = key
  THEN pairs[CHOOSE i \in 1..Len(pairs) : pairs[i][1] = key][2]
  ELSE VUndef

\* the flatter column of a row as load sees it: its properties, or <<>>
\* when the table has no such column
Payload(c, row) ==
  LET is == {i \in 1..Len(tableInfo[c]) : tableInfo[c][i].name = "flatter"}
  IN IF is = {} THEN <<>> ELSE row.vals[CHOOSE i \in is : TRUE].p

ColumnType(c, key) ==
  LET is == {i \in 1..Len(tableInfo[c]) : tableInfo[c][i].name = key}
  IN IF is = {} THEN "" ELSE tableInfo[c][CHOOSE i \in is : TRUE].type

\* a loadWithUUID that would never find an identifier in its cache
cachedNever(u, top) == FALSE

\* if (cache[aUUID]) return cache[aUUID]: a call without a cache starts
\* with an empty one
cached(u, top) == ~top /\ u \in DOMAIN cache.m /\ cache.m[u] # NoEntry

\* a loadWithUUID that would return null for an identifier without a row
notFoundNull(u, top, st) ==
  /\ stack' = Deliver(st, VNull)
  /\ log' = Append(IF st = <<>> THEN <<>> ELSE log, Ev("select", 0, u, 0))
  /\ cache' = IF top THEN [toplevel |-> u, m |-> NoCache.m] ELSE cache
  /\ UNCHANGED exc

\* if (!row) throw new Error(`no object with uuid ... found`)
notFound(u, top, st) ==
  /\ exc' = "Error"
  /\ stack' = st
  /\ log' = Append(IF st = <<>> THEN <<>> ELSE log, Ev("throw", 0, "load", u))
  /\ cache' = IF top THEN [toplevel |-> u, m |-> NoCache.m] ELSE cache

\* loadWithUUID(aUUID, cache?) of class c up to the point where JSON.parse
\* starts on the payload; top is TRUE when no cache is passed and st is the
\* stack of the caller
loadWithUUID(c, u, top, st) ==
  LET hit == cached(u, top)
      found == IF c \in Classes THEN RowsOf(rows, tablename(c), u) ELSE {}
  IN IF hit
     THEN /\ stack' = Deliver(st, VRef(cache.m[u].v))
          /\ log' = Append(log, Ev("hit", 0, u, 0))
          /\ UNCHANGED <<cache, exc>>
     ELSE IF Depth(st) >= MaxDepth
     THEN /\ exc' = "RangeError"                 \* call stack exhausted
          /\ stack' = st
          /\ log' = Append(log, Ev("throw", 0, "stack", u))
          /\ UNCHANGED cache
     ELSE IF found = {}
     THEN notFound(u, top, st)
     ELSE /\ stack' = Append(st, LoadF(c, u, Payload(c, CHOOSE r \in found : TRUE)))
          /\ log' = Append(IF st = <<>> THEN <<>> ELSE log, Ev("select", 0, u, 0))
          /\ cache' = IF top THEN [toplevel |-> u, m |-> NoCache.m] ELSE cache
          /\ UNCHANGED exc

\* C.loadWithUUID(u) called by the application, without a cache
TopLoad(c, u) ==
  /\ ~Running
  /\ loadWithUUID(c, u, TRUE, <<>>)
  /\ result' = [op |-> "load", o |-> u, cls |-> c, outcome |-> "running",
                ret |-> 0, rets |-> result.rets, args |-> <<>>]
  /\ pre' = [rows |-> rows, sp |-> sp]
  /\ ops' = ops + 1
  /\ UNCHANGED <<heap, decl, schema, process, tableInfo, TypeCache, DBTypeConversions, rows, sp,
                 saved>>

\* JSON.parse comes to the next property of the object it is reviving: a
\* nested object is revived first, any other value is returned as it is
parse ==
  /\ Running /\ exc = "none" /\ stack # <<>>
  /\ Top.f \in {"load", "rev"}
  /\ Top.i <= Len(Top.props)
  /\ LET jv == Top.props[Top.i][2]
     IN stack' = IF jv.k = "obj" THEN Append(stack, RevF(jv.p))
                 ELSE Deliver(stack, Revive(jv))
  /\ UNCHANGED <<heap, decl, schema, process, tableInfo, TypeCache, DBTypeConversions, rows, sp,
                 cache, exc, log, result, pre, saved, ops>>

\* the loadWithUUID call whose reviver is running
EnclosingUUID(st) ==
  st[CHOOSE i \in 1..Len(st) :
       st[i].f = "load" /\ \A j \in (i + 1)..Len(st) : st[j].f # "load"].u

\* a reviver that would know no type
TypeCacheNone(class) == ""

\* this.TypeCache[ theValue.class ]: the class of that name, "" when it
\* is not registered
TypeCacheGet(class) ==
  IF class.k = "str" /\ class.v \in TypeCache THEN class.v ELSE ""

\* a reviver that would load the token of the entity it is loading
isSelfNever(uuid, st) == FALSE

\* if (uuid == aUUID) return value
isSelf(uuid, st) == uuid.k = "str" /\ uuid.v = EnclosingUUID(st)

\* the reviver on a nested object whose properties have been revived
reviver ==
  /\ Running /\ exc = "none" /\ stack # <<>>
  /\ Top.f = "rev"
  /\ Top.i > Len(Top.props)
  /\ LET value == VPlain(Top.acc)
         class == Prop(Top.acc, "class")
         uuid == Prop(Top.acc, "uuid")
         aClass == TypeCacheGet(class)
     IN IF aClass = ""
        THEN /\ stack' = Deliver(Below, value)
             /\ UNCHANGED <<cache, exc, log>>
        ELSE IF isSelf(uuid, stack)
        THEN /\ stack' = Deliver(Below, value)
             /\ UNCHANGED <<cache, exc, log>>
        ELSE loadWithUUID(aClass, IF uuid.k = "str" THEN uuid.v ELSE 0, FALSE, Below)
  /\ UNCHANGED <<heap, decl, schema, process, tableInfo, TypeCache, DBTypeConversions, rows, sp,
                 result, pre, saved, ops>>

\* the type conversion (toJSValue) of one entry of the parsed payload
toJSValue(c, key, v) ==
  LET type == ColumnType(c, key)
  IN IF type \in DOMAIN DBTypeConversions /\ DBTypeConversions[type].toJSValue = "Date"
     THEN NewDate(v)
     ELSE v

\* an instance that would keep the uuid its construction generated
createFresh(c, entries) ==
  [cls |-> c,
   own |-> [k \in {entries[i][1] : i \in 1..Len(entries)} |->
              IF k = "uuid" THEN VStr(0) ELSE toJSValue(c, k, Prop(entries, k))],
   proto |-> [uuid |-> VStr(0)]]

\* Object.create(new this(), objectProperties): the converted entries are
\* the own properties, over a default-constructed instance
create(c, entries) ==
  [cls |-> c,
   own |-> [k \in {entries[i][1] : i \in 1..Len(entries)} |->
              toJSValue(c, k, Prop(entries, k))],
   proto |-> [uuid |-> VStr(0)]]

\* a loadWithUUID that would run inside a savepoint it does not release
selectInSavepoint ==
  /\ sp' = Begin(sp, SavepointName, <<0, 0>>)
  /\ UNCHANGED rows

\* DBConnection.prepare(sql).get(aUUID) is the one statement of
\* loadWithUUID: a SELECT, outside any transact
select == UNCHANGED <<rows, sp>>

\* the rest of loadWithUUID once the payload is parsed: the entries are
\* converted, the instance is created and put in the cache
loadReturn ==
  /\ Running /\ exc = "none" /\ stack # <<>>
  /\ Top.f = "load"
  /\ Top.i > Len(Top.props)
  /\ LET c == Top.cls
         entries == Top.acc
         new == Len(heap) + 1
     IN IF \E i \in 1..Len(entries) : ColumnType(c, entries[i][1]) = ""
        THEN /\ exc' = "TypeError"         \* tableInfo[k] is undefined
             /\ log' = Append(log, Ev("throw", 0, "load", Top.u))
             /\ UNCHANGED <<heap, stack, cache, result>>
        ELSE /\ heap' = Append(heap, create(c, entries))
             /\ cache' = [cache EXCEPT !.m[Top.u] = Materialized(new)]
             /\ stack' = Deliver(Below, VRef(new))
             /\ log' = Append(log, Ev("new", new, Top.u, 0))
             /\ result' = IF Below = <<>> THEN [result EXCEPT !.ret = new] ELSE result
             /\ UNCHANGED exc
  /\ select
  /\ UNCHANGED <<decl, schema, process, tableInfo, TypeCache, DBTypeConversions, pre, saved, ops>>

\* the where clause criterion builds from { col: val }
Matches(c, crit) ==
  {r \in rows[tablename(c)] :
     \E i \in 1..Len(tableInfo[c]) :
        tableInfo[c][i].name = crit.col /\ r.vals[i] = crit.val}

\* the orders in which a SELECT without ORDER BY may return the rows
Orders(S) ==
  {f \in [1..Cardinality(S) -> S] : \A i, j \in 1..Cardinality(S) : f[i] = f[j] => i = j}

\* load(criteria, _cache) of class c: SELECT uuid FROM table WHERE ...;
\* the second argument is not used
TopLoadAll(c, crit, mods) ==
  /\ ~Running
  /\ IF crit.col \in {tableInfo[c][i].name : i \in 1..Len(tableInfo[c])}
     THEN /\ \E us \in Orders({r.uuid : r \in Matches(c, crit)}) :
                stack' = <<MapF(c, us)>>
          /\ UNCHANGED exc
     ELSE /\ exc' = "SqliteError"                \* no such column
          /\ stack' = <<>>
  /\ log' = <<>>
  /\ cache' = NoCache
  /\ result' = [op |-> "loadAll", o |-> 0, cls |-> c, outcome |-> "running",
                ret |-> 0, rets |-> <<>>, args |-> <<crit, mods>>]
  /\ pre' = [rows |-> rows, sp |-> sp]
  /\ ops' = ops + 1
  /\ UNCHANGED <<heap, decl, schema, process, tableInfo, TypeCache, DBTypeConversions, rows, sp,
                 saved>>

\* a load that would build each instance from the selected column alone
loadElementBare(c, u, st) ==
  /\ stack' = Append(st, LoadF(c, u, << <<"uuid", JStr(u)>> >>))
  /\ log' = Append(log, Ev("select", 0, u, 0))
  /\ cache' = [toplevel |-> u, m |-> NoCache.m]
  /\ UNCHANGED exc

\* this.loadWithUUID(row.uuid): no cache is passed
loadElement(c, u, st) == loadWithUUID(c, u, TRUE, st)

\* the map callback of load on the next selected identifier
map ==
  /\ Running /\ exc = "none" /\ stack # <<>>
  /\ Top.f = "map"
  /\ Top.i <= Len(Top.props)
  /\ loadElement(Top.cls, Top.props[Top.i][1], stack)
  /\ UNCHANGED <<heap, decl, schema, process, tableInfo, TypeCache, DBTypeConversions, rows, sp,
                 result, pre, saved, ops>>

\* load returns the array of instances
loadAllReturn ==
  /\ Running /\ exc = "none" /\ stack # <<>>
  /\ Top.f = "map"
  /\ Top.i > Len(Top.props)
  /\ result' = [result EXCEPT !.rets = [i \in 1..Len(Top.acc) |-> Top.acc[i][2].o]]
  /\ stack' = Below
  /\ UNCHANGED <<heap, decl, schema, process, tableInfo, TypeCache, DBTypeConversions, rows, sp,
                 cache, exc, log, pre, saved, ops>>

\* a reviver or replacer that would catch the failure and go on with null
propagateNull ==
  /\ IF Top.f # "map" /\ Top.i <= Len(Top.props)
     THEN stack' = Deliver(stack, VNull) /\ exc' = "none"
     ELSE stack' = Below /\ UNCHANGED exc
  /\ UNCHANGED <<rows, sp, log>>

\* no try/catch in JSON.parse, JSON.stringify, the reviver, the replacer or
\* the map callback: the failure leaves the frame
propagate ==
  /\ stack' = Below
  /\ UNCHANGED <<rows, sp, log, exc>>

unwind ==
  /\ Running /\ exc # "none" /\ stack # <<>>
  /\ IF Top.f = "save"
     THEN LET i == Innermost(sp, SavepointName)
          IN /\ rows' = RollbackRows(sp, SavepointName)
             /\ sp' = RollbackStack(sp, SavepointName)
             /\ log' = Append(log, Ev("rollback", Top.o, sp[i].id, Top.own))
             /\ stack' = Below
             /\ UNCHANGED exc
     ELSE propagate
  /\ UNCHANGED <<heap, decl, schema, process, tableInfo, TypeCache, DBTypeConversions,
                 cache, result, pre, saved, ops>>

\* the top-level call returns to the application, or throws
return ==
  /\ Running /\ stack = <<>>
  /\ result' = [result EXCEPT !.outcome = IF exc = "none" THEN "ok" ELSE exc]
  /\ saved' = IF result.op = "save" /\ exc = "none"
              THEN [saved EXCEPT ![uuidOf(heap, result.o)] = heap[result.o].own]
              ELSE saved
  /\ exc' = "none"
  /\ UNCHANGED <<heap, decl, schema, process, tableInfo, TypeCache, DBTypeConversions, rows, sp,
                 stack, cache, log, pre, ops>>

\* the application sets the field name of an entity it has loaded
Assign(o, v) ==
  /\ ~Running
  /\ o > NObj
  /\ heap[o].own.name # v
  /\ heap' = [heap EXCEPT ![o].own.name = v]
  /\ UNCHANGED <<decl, schema, process, tableInfo, TypeCache, DBTypeConversions, rows, sp,
                 stack, cache, exc, log, result, pre, saved, ops>>

\* ------------------------------------------------------------- the spec
RefValues == {VNull} \cup {VRef(o) : o \in Objs}

\* the values the application gives the field name, by its declaration
NameValues(nd) ==
  CASE nd = "integer" -> <<VNum(1), VNum(2)>>
    [] nd = "float" -> <<VNum(0), VNum(2)>>
    [] nd = "date" -> <<VDate(0), VDate(1)>>
    [] OTHER -> <<VStr(0), VStr(1)>>

\* new A(template) / new B(template): uuid, the declared fields and the
\* fields of the template are own properties; l or r is VUndef when the
\* instance has no such property
Constructed(o, nm, l, r) ==
  LET keys == {"uuid", "name"}
              \cup (IF l = VUndef THEN {} ELSE {"left"})
              \cup (IF ClassOf(o) = "A" /\ r # VUndef THEN {"right"} ELSE {})
  IN [cls |-> ClassOf(o),
      own |-> [k \in keys |-> CASE k = "uuid" -> VStr(o)
                                [] k = "name" -> nm
                                [] k = "left" -> l
                                [] OTHER -> r],
      proto |-> [uuid |-> VStr(0)]]

\* every graph over the reference fields, whatever the classes of the
\* entities the fields hold
Graphs ==
  {[o \in Objs |-> Constructed(o, VStr(0), l[o], r)] :
     l \in [Objs -> RefValues], r \in RefValues}

\* the graphs an application builds with the fields as declared: a field
\* of A holds an instance of B and a field of B an instance of A; a field
\* declared = {} may hold null, an undeclared field may be missing
FieldValues(c, d) ==
  {VRef(o) : o \in {p \in Objs : ClassOf(p) # c}}
  \cup (IF d[c] = "object" THEN {VNull} ELSE {})
  \cup (IF d[c] = "none" THEN {VUndef} ELSE {})

TypedGraphs(d) ==
  {[o \in Objs |-> Constructed(o, NameValues(d.name)[1], l[o], r)] :
     l \in {f \in [Objs -> RefValues \cup {VUndef}] :
              \A o \in Objs : f[o] \in FieldValues(ClassOf(o), d)},
     r \in FieldValues("A", d)}

\* a plain object with the properties of a token of entity o
PlainToken(o) == VPlain(<< <<"class", VStr(ClassOf(o))>>, <<"uuid", VStr(o)>> >>)

\* the value of a field of entity 1 in graph g
Get1(g, name) == IF name \in DOMAIN g[1].own THEN g[1].own[name] ELSE VUndef

\* the graphs of the application: a field of the entity it works on that
\* is not declared = new B() may also hold a plain object that names the
\* entity itself
AppGraphs(d) ==
  TypedGraphs(d)
  \cup (IF d.A = "new" THEN {}
        ELSE {[g EXCEPT ![1] = Constructed(1, g[1].own.name, Get1(g, "left"), PlainToken(1))] :
                g \in {h \in TypedGraphs(d) : Get1(h, "right") \in {VUndef, VNull}}})

NoSnapshot == [uuid |-> VNull]

Boot(d) ==
  /\ decl = d
  /\ schema = [t \in Tables |-> sqlFields(ClassBody(Singular(t), d))]
  /\ process = 1
  /\ tableInfo = [c \in Classes |-> init(c, d)]
  /\ TypeCache = Classes
  /\ DBTypeConversions = DefaultConversions
  /\ rows = NoRows
  /\ sp = <<>>
  /\ stack = <<>>
  /\ cache = NoCache
  /\ exc = "none"
  /\ log = <<>>
  /\ result = [op |-> "none", o |-> 0, cls |-> "", outcome |-> "none",
               ret |-> 0, rets |-> <<>>, args |-> <<>>]
  /\ pre = [rows |-> NoRows, sp |-> <<>>]
  /\ saved = [u \in UUIDs |-> NoSnapshot]
  /\ ops = 0

\* one process: the classes are declared, entities are constructed, then
\* the application saves, loads and mutates them
Init ==
  \E rd \in RefDecls, nd \in NameDecls :
     /\ nd # "string" => rd = [A |-> "none", B |-> "none"]
     /\ heap \in AppGraphs(Decl(rd, nd))
     /\ nd # "string" => \A o \in Objs : DOMAIN heap[o].own = {"uuid", "name"}
     /\ Boot(Decl(rd, nd))

Step ==
  \/ dbValues
  \/ replacer
  \/ stringifyReturn
  \/ saveReturn
  \/ unwind
  \/ return

\* the entity the application works on, and the instances it holds of it
Entity == 1
Held == {o \in 1..Len(heap) : uuidOf(heap, o) = Entity}

Next ==
  \/ \E o \in Held : ops < MaxOps /\ TopSave(o)
  \/ ops < MaxOps /\ TopLoad(ClassOf(Entity), Entity)
  \/ \E o \in Held : Assign(o, NameValues(decl.name)[2])
  \/ parse
  \/ reviver
  \/ loadReturn
  \/ Step

Spec == Init /\ [][Next]_vars

\* the cascade of save() alone, on every graph
InitSave ==
  \E rd \in RefDecls :
     /\ heap \in Graphs
     /\ Boot(Decl(rd, "string"))

NextSave ==
  \/ \E o \in Objs : ops < MaxSaves /\ TopSave(o)
  \/ Step

SpecSave == InitSave /\ [][NextSave]_vars

\* an init that would create its table whatever the database holds
tableAlways(c, existing) == sqlFields(ClassBody(c, decl))

\* if (!tableDetails) DBConnection.run(sqlDefinition): the table of class c
\* after init, existing being what the database held under that name
table(c, existing) ==
  IF existing = NoTable THEN sqlFields(ClassBody(c, decl)) ELSE existing

\* static { this.init() } in the body of class c
staticInit(c) ==
  /\ ~Running
  /\ c \notin TypeCache
  /\ TypeCache' = TypeCache \cup {c}
  /\ schema' = [schema EXCEPT ![tablename(c)] = table(c, @)]
  /\ tableInfo' = [tableInfo EXCEPT ![c] = table_info(schema'[tablename(c)])]
  /\ result' = [op |-> "init", o |-> 0, cls |-> c, outcome |-> "ok",
                ret |-> 0, rets |-> <<>>, args |-> <<>>]
  /\ UNCHANGED <<heap, decl, process, DBTypeConversions, rows, sp, stack, cache,
                 exc, log, pre, saved, ops>>

\* the program ends and is run again, with class bodies d, on the database
\* file the earlier run left: the static registries are empty again, a
\* transaction left open is rolled back with the connection
restart(d) ==
  /\ ~Running
  /\ process' = process + 1
  /\ decl' = d
  /\ TypeCache' = {}
  /\ tableInfo' = [c \in Classes |-> <<>>]
  /\ rows' = IF sp = <<>> THEN rows ELSE sp[1].snap
  /\ sp' = <<>>
  /\ heap' = <<>>
  /\ cache' = NoCache
  /\ log' = <<>>
  /\ result' = [op |-> "none", o |-> 0, cls |-> "", outcome |-> "none",
                ret |-> 0, rets |-> <<>>, args |-> <<>>]
  /\ UNCHANGED <<schema, DBTypeConversions, stack, exc, pre, saved, ops>>

\* the class bodies of a run: with a field name = "", or with no field
\* at all
RunDecls ==
  {Decl(rd, "string") : rd \in RefDecls} \cup {Decl([A |-> "none", B |-> "none"], "none")}

\* two runs of a program on one database file: the classes are declared,
\* the entity is saved; the second run declares the classes, possibly with
\* other bodies, and loads the entity
InitRuns ==
  \E d \in RunDecls :
     /\ heap \in TypedGraphs(d)
     /\ decl = d
     /\ schema = [t \in Tables |-> NoTable]
     /\ process = 1
     /\ tableInfo = [c \in Classes |-> <<>>]
     /\ TypeCache = {}
     /\ DBTypeConversions = DefaultConversions
     /\ rows = NoRows
     /\ sp = <<>>
     /\ stack = <<>>
     /\ cache = NoCache
     /\ exc = "none"
     /\ log = <<>>
     /\ result = [op |-> "none", o |-> 0, cls |-> "", outcome |-> "none",
                  ret |-> 0, rets |-> <<>>, args |-> <<>>]
     /\ pre = [rows |-> NoRows, sp |-> <<>>]
     /\ saved = [u \in UUIDs |-> NoSnapshot]
     /\ ops = 0

NextRuns ==
  \/ \E c \in Classes : staticInit(c)
  \/ /\ process = 1 /\ TypeCache = Classes
     /\ ops < MaxSaves
     /\ TopSave(Entity)
  \/ \E d \in RunDecls :
        /\ process < MaxProcesses /\ TypeCache = Classes
        /\ restart(d)
  \/ /\ process > 1 /\ ClassOf(Entity) \in TypeCache
     /\ result.op # "load"
     /\ TopLoad(ClassOf(Entity), Entity)
  \/ parse
  \/ reviver
  \/ loadReturn
  \/ Step

SpecRuns == InitRuns /\ [][NextRuns]_vars

\* load(criteria): the application saves entities, then loads those of one
\* class by criteria and one of them by its identifier
Queried == "B"

Criteria ==
  {[col |-> "name", val |-> ScalarJSON(NameValues("string")[1])],
   [col |-> "left", val |-> JStr(1)],
   [col |-> "uuid", val |-> JStr(NObj)]}

NoModifiers == [order |-> "", descending |-> FALSE, limit |-> 0]

Modifiers == {NoModifiers, [order |-> "uuid", descending |-> TRUE, limit |-> 1]}

InitLoad ==
  \E rd \in RefDecls :
     /\ heap \in TypedGraphs(Decl(rd, "string"))
     /\ Boot(Decl(rd, "string"))

NextLoad ==
  \/ \E o \in Objs :
        /\ ops < MaxOps - 1
        /\ result.op \in {"none", "save"}
        /\ TopSave(o)
  \/ \E crit \in Criteria, mods \in Modifiers :
        /\ ops < MaxOps
        /\ TopLoadAll(Queried, crit, mods)
  \/ \E i \in 1..Len(result.rets) :
        /\ result.op = "loadAll"
        /\ TopLoad(Queried, uuidOf(heap, result.rets[i]))
  \/ map
  \/ loadAllReturn
  \/ parse
  \/ reviver
  \/ loadReturn
  \/ Step

SpecLoad == InitLoad /\ [][NextLoad]_vars

\* --------------------------------------------------------- properties
Done == result.outcome \notin {"none", "running"}

\* the entities o embeds, and the entities a save of o cascades to
Embedded(hp, o) ==
  {hp[o].own[k].o : k \in {j \in DOMAIN hp[o].own : hp[o].own[j].k = "ref"}}

RECURSIVE ReachFrom(_, _, _)
ReachFrom(hp, S, n) ==
  IF n = 0 THEN S
  ELSE ReachFrom(hp, S \cup UNION {Embedded(hp, o) : o \in S}, n - 1)

Reachable(hp, o) == ReachFrom(hp, {o}, Len(hp))

\* INSERT OR REPLACE statements the running call has issued for uuid u
WritesOf(u) == Cardinality({i \in 1..Len(log) : log[i].e = "write" /\ log[i].a = u})

Stored(o) == RowsOf(rows, tablename(heap[o].cls), uuidOf(heap, o))

\* C1: a top-level save() on any finite graph of entities, cycles among
\* nested entities included, terminates: it never exhausts the call stack.
C1_SaveTerminates ==
  (result.op = "save" /\ Done) => result.outcome # "RangeError"

\* C2: during one top-level save no entity is written twice, and when the
\* save returns every entity reachable from the saved one has been written
\* exactly once and has exactly one row, also when it is held by two
\* fields or reached along two paths.
C2_WrittenOnce ==
  /\ \A u \in UUIDs : WritesOf(u) <= 1
  /\ (result.op = "save" /\ result.outcome = "ok") =>
        \A p \in Reachable(heap, result.o) :
           /\ WritesOf(uuidOf(heap, p)) = 1
           /\ Cardinality(Stored(p)) = 1

\* a save has returned that met an entity it had already written
C2_Witness ==
  /\ result.op = "save" /\ result.outcome = "ok"
  /\ Cardinality(Reachable(heap, result.o)) >= 3
  /\ \E i \in 1..Len(log) :
        log[i].e = "skip" /\ log[i].a # uuidOf(heap, result.o)

\* a and b embed each other and nothing else
Mutual(a, b) ==
  LET fields(o) == {heap[o].own[k] : k \in DOMAIN heap[o].own \ {"uuid", "name"}}
  IN a # b /\ fields(a) = {VRef(b)} /\ fields(b) = {VRef(a)}

\* C3: for two entities a and b that embed each other, a top-level save(a)
\* terminates, and afterwards a row exists for a and a row exists for b.
C3_MutualSave ==
  \A b \in Objs :
     (result.op = "save" /\ Done /\ Mutual(result.o, b)) =>
        /\ result.outcome = "ok"
        /\ Stored(result.o) # {}
        /\ Stored(b) # {}

\* the stored payload of a names b in its field left, and that of b names a
StoredMutual(a, b) ==
  /\ a # b
  /\ \E ra \in RowsOf(rows, tablename(ClassOf(a)), a) :
        Prop(Payload(ClassOf(a), ra), "left") = JTok(ClassOf(b), b)
  /\ \E rb \in RowsOf(rows, tablename(ClassOf(b)), b) :
        Prop(Payload(ClassOf(b), rb), "left") = JTok(ClassOf(a), a)

\* C4: for stored entities a and b whose payloads reference each other,
\* loadWithUUID(a) terminates and returns an instance x such that
\* x.left.left is x itself.
C4_MutualLoad ==
  \A b \in UUIDs :
     (result.op = "load" /\ Done /\ StoredMutual(result.o, b)) =>
        /\ result.outcome = "ok"
        /\ heap[result.ret].own.left.k = "ref"
        /\ heap[heap[result.ret].own.left.o].own.left = VRef(result.ret)

\* C5: when a top-level save fails, every row written since the call began
\* is reverted, the rows of sibling entities written before the failing one
\* included: the tables are what they were before the call.
C5_FailedSaveRevertsAll ==
  (result.op = "save" /\ Done /\ result.outcome # "ok") => rows = pre.rows

\* C6: when the converter of a column of an entity throws during a save,
\* no row of that entity is visible after the call: its table has the rows
\* of that entity, and the number of rows, it had before the call.
C6_ConverterFailure ==
  \A i \in 1..Len(log) :
     (result.op = "save" /\ Done /\ log[i].e = "throw" /\ log[i].a = "converter") =>
        LET t == tablename(heap[log[i].o].cls)
        IN /\ Stored(log[i].o) = RowsOf(pre.rows, t, uuidOf(heap, log[i].o))
           /\ Cardinality(rows[t]) = Cardinality(pre.rows[t])

\* C7: a failure raised inside the unit of work of a transact makes that
\* transact roll back to the checkpoint it opened and reaches the caller:
\* every checkpoint opened and not released before the failure is rolled
\* back to by the call that opened it, and the save does not return success.
C7_RollbackAndReraise ==
  (result.op = "save" /\ Done /\ \E i \in 1..Len(log) : log[i].e = "throw") =>
     /\ result.outcome # "ok"
     /\ \A i \in 1..Len(log) :
           (/\ log[i].e = "savepoint"
            /\ ~\E j \in 1..Len(log) : log[j].e = "release" /\ log[j].b = log[i].a)
           => \E j \in 1..Len(log) :
                 /\ log[j].e = "rollback"
                 /\ log[j].b = log[i].a
                 /\ log[j].a = log[i].a

\* an entity that embeds no entity
NoEmbedded(own) == \A k \in DOMAIN own : own[k].k # "ref"

Columns(c) == {tableInfo[c][i].name : i \in 1..Len(tableInfo[c])}

\* C8: for an entity e that embeds no entity, after save(e) the instance
\* loadWithUUID(e.uuid) returns has the fields e had, with equal values.
C8_RoundTrip ==
  (/\ result.op = "load" /\ Done
   /\ saved[result.o] # NoSnapshot
   /\ NoEmbedded(saved[result.o])) =>
     /\ result.outcome = "ok"
     /\ heap[result.ret].own = saved[result.o]

\* C9: a field that is not mapped to a column is stored in the payload by
\* save and is on the instance loadWithUUID returns, with the same value.
C9_UnmappedField ==
  /\ (result.op = "save" /\ result.outcome = "ok"
      /\ "name" \notin Columns(heap[result.o].cls)) =>
        \A r \in Stored(result.o) :
           Prop(Payload(heap[result.o].cls, r), "name")
             = ScalarJSON(saved[uuidOf(heap, result.o)].name)
  /\ (result.op = "load" /\ Done
      /\ saved[result.o] # NoSnapshot
      /\ "name" \notin Columns(ClassOf(result.o))) =>
        /\ result.outcome = "ok"
        /\ heap[result.ret].own.name = saved[result.o].name

\* C10: there is never more than one row for a uuid, and after a save of
\* an instance, also one that was loaded and mutated, the one row of its
\* uuid holds the values the instance had.
C10_OneRow ==
  /\ \A t \in Tables, u \in UUIDs : Cardinality(RowsOf(rows, t, u)) <= 1
  /\ (result.op = "save" /\ result.outcome = "ok") =>
        LET c == heap[result.o].cls
            u == uuidOf(heap, result.o)
        IN /\ Cardinality(Stored(result.o)) = 1
           /\ \A r \in Stored(result.o) :
                 Prop(Payload(c, r), "name") = ScalarJSON(saved[u].name)

\* an instance was loaded, its name changed and the instance saved: the
\* row there was before holds the new name
C10_Witness ==
  /\ result.op = "save" /\ result.outcome = "ok"
  /\ result.o > NObj
  /\ RowsOf(pre.rows, tablename(heap[result.o].cls), uuidOf(heap, result.o)) # {}
  /\ \A r \in RowsOf(pre.rows, tablename(heap[result.o].cls), uuidOf(heap, result.o)) :
        Prop(Payload(heap[result.o].cls, r), "name")
          # ScalarJSON(saved[uuidOf(heap, result.o)].name)

\* the events of one kind about identifier u in the log of the operation
EventsOf(e, u) == {i \in 1..Len(log) : log[i].e = e /\ log[i].a = u}

\* the instances the load in progress or just done has created
Loaded == {log[i].o : i \in {j \in 1..Len(log) : log[j].e = "new"}}

\* the references the fields of instance x hold, as <<field, instance>>
RefsOf(x) ==
  {<<k, heap[x].own[k].o>> : k \in {j \in DOMAIN heap[x].own : heap[x].own[j].k = "ref"}}

\* C11: within one loadWithUUID call tree no identifier gets more than one
\* instance; when the load returns, the row of each identifier was read
\* once, and the fields of the loaded instances that refer to one identifier
\* hold one and the same instance.
C11_OneInstancePerIdentifier ==
  result.op = "load" =>
    /\ \A u \in UUIDs : Cardinality(EventsOf("new", u)) <= 1
    /\ result.outcome = "ok" =>
         /\ \A u \in UUIDs : Cardinality(EventsOf("select", u)) <= 1
         /\ \A x, y \in Loaded : \A r \in RefsOf(x), q \in RefsOf(y) :
               uuidOf(heap, r[2]) = uuidOf(heap, q[2]) => r[2] = q[2]

\* a load returned an instance two fields of which carried the token of one
\* identifier: the second token was answered from the cache
C11_Witness ==
  /\ result.op = "load" /\ result.outcome = "ok"
  /\ \E u \in UUIDs : EventsOf("hit", u) # {} /\ EventsOf("new", u) # {}
  /\ \E r \in RefsOf(result.ret), q \in RefsOf(result.ret) :
        r[1] # q[1] /\ r[2] = q[2]

\* the identifiers a loadWithUUID of the operation found no row for
Missing ==
  {u \in UUIDs : /\ RowsOf(rows, tablename(ClassOf(u)), u) = {}
                 /\ \E i \in 1..Len(log) :
                       \/ log[i].e = "select" /\ log[i].a = u
                       \/ log[i].e = "throw" /\ log[i].b = u}

\* C13: loadWithUUID(u) for an identifier without a row fails with an
\* Error, returns no instance and leaves the cache without an instance for u.
C13_MissingRow ==
  (result.op = "load" /\ Done) =>
     /\ RowsOf(rows, tablename(result.cls), result.o) = {} =>
           result.outcome = "Error" /\ result.ret = 0
     /\ \A u \in Missing :
           /\ result.outcome = "Error"
           /\ cache.m[u] = NoEntry
           /\ EventsOf("new", u) = {}

\* a load of an identifier no save has written a row for has ended
C13_Witness ==
  /\ result.op = "load" /\ Done
  /\ result.o \in Missing
  /\ rows = NoRows

\* the foreign-key columns of class c, as indexes in its column list
FKColumns(c) == {i \in 1..Len(tableInfo[c]) : tableInfo[c][i].fk}

\* C15: after a save that returned true, in the row of every entity written
\* each foreign-key column whose field holds an entity has the identifier of
\* that entity as its value.
C15_ForeignKeyValue ==
  (result.op = "save" /\ result.outcome = "ok") =>
     \A o \in Reachable(heap, result.o) : \A i \in FKColumns(heap[o].cls) :
        LET value == Get(o, tableInfo[heap[o].cls][i].name)
        IN value.k = "ref" =>
             \A r \in Stored(o) : r.vals[i] = JStr(uuidOf(heap, value.o))

\* a save returned true for an entity whose foreign-key column field holds
\* another entity
C15_Witness ==
  /\ result.op = "save" /\ result.outcome = "ok"
  /\ Stored(result.o) # {}
  /\ \E i \in FKColumns(heap[result.o].cls) :
        LET value == Get(result.o, tableInfo[heap[result.o].cls][i].name)
        IN value.k = "ref" /\ uuidOf(heap, value.o) # uuidOf(heap, result.o)

\* the payload keys of the row of identifier u whose value is a token of a
\* registered type
TokenKeys(c, u) ==
  UNION {LET pl == Payload(c, r)
         IN {pl[i][1] : i \in {j \in 1..Len(pl) :
                /\ pl[j][2].k = "obj"
                /\ Prop(pl[j][2].p, "class").k = "str"
                /\ Prop(pl[j][2].p, "class").v \in TypeCache}}
         : r \in RowsOf(rows, tablename(c), u)}

\* C16: when loadWithUUID or load(criteria) returns, every field of every instance it created whose
\* payload value is a token of a registered type holds a live instance of
\* that type with the identifier of the token.
C16_TokensResolved ==
  (result.op \in {"load", "loadAll"} /\ result.outcome = "ok") =>
     \A x \in Loaded : \A k \in TokenKeys(heap[x].cls, uuidOf(heap, x)) :
        \A r \in RowsOf(rows, tablename(heap[x].cls), uuidOf(heap, x)) :
           LET tok == Prop(Payload(heap[x].cls, r), k)
               value == heap[x].own[k]
           IN /\ value.k = "ref"
              /\ value.o \in 1..Len(heap)
              /\ heap[value.o].cls = Prop(tok.p, "class").v
              /\ JStr(uuidOf(heap, value.o)) = Prop(tok.p, "uuid")

\* load(criteria) returned an instance one field of which came from a token,
\* and so did the loadWithUUID that followed
C16_Witness ==
  /\ result.op = "load" /\ result.outcome = "ok"
  /\ TokenKeys(heap[result.ret].cls, uuidOf(heap, result.ret)) # {}
  /\ \E i \in 1..Len(result.rets) :
        TokenKeys(heap[result.rets[i]].cls, uuidOf(heap, result.rets[i])) # {}

\* C17: the instance loadWithUUID(u) returns has the identifier u, and so
\* has every instance created for a token, not the identifier generated
\* when the instance was constructed during the load.
C17_LoadedIdentifier ==
  (result.op = "load" /\ result.outcome = "ok") =>
     /\ Get(result.ret, "uuid") = VStr(result.o)
     /\ \A i \in 1..Len(log) :
           log[i].e = "new" => Get(log[i].o, "uuid") = VStr(log[i].a)

\* a load returned an instance; the construction had given it another uuid
C17_Witness ==
  /\ result.op = "load" /\ result.outcome = "ok"
  /\ result.ret \in 1..Len(heap)
  /\ heap[result.ret].proto.uuid # VStr(result.o)

\* C12: load(criteria) resolves the tokens of the whole batch to one
\* instance per identifier: two returned entities that refer to one stored
\* entity hold the same instance, and a returned entity that refers to
\* another returned entity holds the returned instance.
C12_BatchSharesInstances ==
  (result.op = "loadAll" /\ result.outcome = "ok") =>
     /\ \A x, y \in Loaded : \A r \in RefsOf(x), q \in RefsOf(y) :
           uuidOf(heap, r[2]) = uuidOf(heap, q[2]) => r[2] = q[2]
     /\ \A x \in Loaded : \A r \in RefsOf(x) : \A i \in 1..Len(result.rets) :
           uuidOf(heap, r[2]) = uuidOf(heap, result.rets[i]) => r[2] = result.rets[i]

\* the value of column col in the row of instance x
ColumnOf(x, col) ==
  LET c == heap[x].cls
      r == CHOOSE q \in RowsOf(rows, tablename(c), uuidOf(heap, x)) : TRUE
  IN r.vals[CHOOSE i \in 1..Len(tableInfo[c]) : tableInfo[c][i].name = col].v

\* C18: a load by criteria with an order column, the descending modifier
\* and a limit n returns the n highest matching entities (all of them when
\* fewer match), highest first.
C18_OrderAndLimit ==
  (result.op = "loadAll" /\ result.outcome = "ok" /\ result.args[2].limit > 0) =>
     LET n == result.args[2].limit
         col == result.args[2].order
         all == {r.uuid : r \in Matches(result.cls, result.args[1])}
         got == result.rets
     IN /\ Len(got) = IF Cardinality(all) < n THEN Cardinality(all) ELSE n
        /\ \A i, j \in 1..Len(got) : i < j => ColumnOf(got[i], col) > ColumnOf(got[j], col)
        /\ \A i \in 1..Len(got) : \A u \in all :
              u \notin {uuidOf(heap, got[j]) : j \in 1..Len(got)}
                => \A r \in RowsOf(rows, tablename(result.cls), u) :
                      ColumnOf(got[i], col)
                        > r.vals[CHOOSE k \in 1..Len(tableInfo[result.cls]) :
                                    tableInfo[result.cls][k].name = col].v

\* instances x and y have the same fields with the same values, entities held
\* by fields compared the same way down to depth d
RECURSIVE Same(_, _, _)
Same(x, y, d) ==
  /\ heap[x].cls = heap[y].cls
  /\ DOMAIN heap[x].own = DOMAIN heap[y].own
  /\ \A k \in DOMAIN heap[x].own :
        LET v == heap[x].own[k]
            w == heap[y].own[k]
        IN IF v.k = "ref"
           THEN w.k = "ref" /\ (d > 0 => Same(v.o, w.o, d - 1))
           ELSE v = w

\* C19: every entity load(criteria) returned is equal, field by field, to
\* what loadWithUUID of its identifier returns.
C19_LoadDelegates ==
  (result.op = "load" /\ result.outcome = "ok") =>
     \A i \in 1..Len(result.rets) :
        uuidOf(heap, result.rets[i]) = result.o
          => Same(result.rets[i], result.ret, MaxDepth)

\* an entity that load(criteria) returned with a field holding another
\* entity was loaded again by its identifier
C19_Witness ==
  /\ result.op = "load" /\ result.outcome = "ok"
  /\ \E i \in 1..Len(result.rets) :
        /\ uuidOf(heap, result.rets[i]) = result.o
        /\ result.rets[i] # result.ret
        /\ RefsOf(result.ret) # {}

\* the payload keys of the row of identifier u whose value is a token of a
\* type that is not registered
UnknownKeys(c, u) ==
  UNION {LET pl == Payload(c, r)
         IN {pl[i][1] : i \in {j \in 1..Len(pl) :
                /\ pl[j][2].k = "obj"
                /\ Prop(pl[j][2].p, "class").k = "str"
                /\ Prop(pl[j][2].p, "class").v \notin TypeCache}}
         : r \in RowsOf(rows, tablename(c), u)}

\* C14: when the payload holds a token whose type is not in the TypeCache,
\* loadWithUUID completes, the field holds the token as it is stored, and no
\* load of the token's identifier was attempted.
C14_UnknownTypeToken ==
  (result.op = "load" /\ Done /\ result.cls \in TypeCache) =>
     \A k \in UnknownKeys(result.cls, result.o) :
        \A r \in RowsOf(rows, tablename(result.cls), result.o) :
           LET tok == Prop(Payload(result.cls, r), k)
               u == Prop(tok.p, "uuid").v
           IN /\ result.outcome = "ok"
              /\ heap[result.ret].own[k]
                   = VPlain(<< <<"class", VStr(Prop(tok.p, "class").v)>>,
                               <<"uuid", VStr(u)>> >>)
              /\ EventsOf("select", u) = {}
              /\ \A i \in 1..Len(log) : log[i].e = "throw" => log[i].b # u

\* C20: init creates the table of the class, from the class body, only when
\* the database has no table of the pluralized name, and leaves an existing
\* table as it is; it leaves every row as it is; after it the class is in
\* the TypeCache and tableInfo holds the columns of the table under the
\* class name.
C20_InitCreatesOnce ==
  [][\A c \in Classes :
       (result' # result /\ result'.op = "init" /\ result'.cls = c) =>
          LET t == tablename(c)
          IN /\ schema[t] # NoTable => schema' = schema
             /\ schema[t] = NoTable =>
                  schema' = [schema EXCEPT ![t] = sqlFields(ClassBody(c, decl))]
             /\ rows' = rows
             /\ c \in TypeCache'
             /\ tableInfo'[c] = table_info(schema'[t])
             /\ tableInfo'[c] # <<>>]_vars

\* a class was declared, with another body than the one its table was
\* created from, in a run that found the table and a row in it
C20_Witness ==
  /\ result.op = "init"
  /\ process > 1
  /\ rows[tablename(result.cls)] # {}
  /\ schema[tablename(result.cls)] # sqlFields(ClassBody(result.cls, decl))
  /\ result.cls \in TypeCache

\* C21: within one cascade every RELEASE and every ROLLBACK TO issued by a
\* transact call acts on the savepoint that same call opened, when the unit
\* of work succeeds and when it fails.
C21_OwnCheckpoint ==
  result.op = "save" =>
     \A i \in 1..Len(log) :
        log[i].e \in {"release", "rollback"} => log[i].a = log[i].b

\* C22: once the row of an entity is written, and for the rest of the
\* top-level save, the cache holds the entity itself under its identifier,
\* not a placeholder.
C22_CacheHoldsEntity ==
  result.op = "save" =>
     \A i \in 1..Len(log) :
        log[i].e = "write" => cache.m[log[i].a] = Materialized(log[i].o)

\* the saves of the cascade that returned at once, as positions in the log
Skips == {i \in 1..Len(log) : log[i].e = "skip"}

\* C23: a cascaded save(cache) on an entity whose identifier is that of the
\* top-level entity or is in the cache returns true at once: it opens no
\* savepoint and writes no row, here or later in the cascade, for the call.
C23_ShortCircuit ==
  [][\A o \in 1..Len(heap) :
       (/\ result.op = "save" /\ stack # <<>> /\ exc = "none"
        /\ Len(log') > Len(log)
        /\ log'[Len(log) + 1].o = o
        /\ \/ log'[Len(log) + 1].e \in {"skip", "savepoint"}
           \/ log'[Len(log) + 1].e = "throw" /\ log'[Len(log) + 1].a = "placeholders"
        /\ \/ uuidOf(heap, o) = uuidOf(heap, cache.toplevel)
           \/ cache.m[uuidOf(heap, o)] # NoEntry) =>
          /\ log' = Append(log, Ev("skip", o, uuidOf(heap, o), 0))
          /\ exc' = "none"
          /\ rows' = rows
          /\ sp' = sp
          /\ cache' = cache
          /\ Len(stack') <= Len(stack)]_vars

\* a cascade has met an entity again whose row it had written, and one
\* that is the top-level entity
C23_Witness ==
  /\ result.op = "save" /\ result.outcome = "ok"
  /\ \E i \in Skips : log[i].a = uuidOf(heap, result.o)
  /\ \E i \in Skips : log[i].a # uuidOf(heap, result.o)

\* the columns of class c that toDBValue of OBJECT serializes, as indexes
ObjectColumns(c) ==
  {i \in 1..Len(tableInfo[c]) :
     /\ tableInfo[c][i].type \in DOMAIN DBTypeConversions
     /\ DBTypeConversions[tableInfo[c][i].type].toDBValue = "stringify"}

\* the properties of instance x that JSON.stringify writes
Written(x) == {k \in DOMAIN heap[x].own : heap[x].own[k].k # "undef"}

\* C24: in every value toDBValue of OBJECT wrote for an entity e in a save
\* that returned true, e is written as it is, with its own properties and
\* not as a token, and every other entity a property of e holds is written
\* as the token of its class and identifier, its save having been called in
\* the same cascade.
C24_TokensForEmbedded ==
  (result.op = "save" /\ result.outcome = "ok") =>
     \A o \in Reachable(heap, result.o) : \A r \in Stored(o) :
        \A i \in ObjectColumns(heap[o].cls) :
           LET value == Get(o, tableInfo[heap[o].cls][i].name)
           IN value.k = "ref" =>
                LET e == value.o
                    p == r.vals[i].p
                IN /\ {p[j][1] : j \in 1..Len(p)} = Written(e)
                   /\ \A k \in Written(e) :
                        LET v == heap[e].own[k]
                        IN IF v.k = "ref" /\ uuidOf(heap, v.o) # uuidOf(heap, e)
                           THEN /\ Prop(p, k) = JTok(heap[v.o].cls, uuidOf(heap, v.o))
                                /\ \E n \in 1..Len(log) :
                                      /\ log[n].e \in {"write", "skip"}
                                      /\ log[n].a = uuidOf(heap, v.o)
                                /\ Stored(v.o) # {}
                           ELSE v.k # "ref" /\ Prop(p, k) = ScalarJSON(v)

\* a save returned true for an entity a property of which holds another
\* entity
C24_Witness ==
  /\ result.op = "save" /\ result.outcome = "ok"
  /\ Stored(result.o) # {}
  /\ \E k \in Written(result.o) :
        /\ heap[result.o].own[k].k = "ref"
        /\ uuidOf(heap, heap[result.o].own[k].o) # uuidOf(heap, result.o)

\* the payload keys of the row of identifier u whose value has the shape of
\* a token of a registered type and carries u itself
SelfKeys(c, u) ==
  {k \in TokenKeys(c, u) :
     \A r \in RowsOf(rows, tablename(c), u) :
        Prop(Prop(Payload(c, r), k).p, "uuid") = JStr(u)}

\* C25: a node of the payload of u that has the shape of a token and
\* carries u is left as it is by loadWithUUID(u): the returned instance
\* holds the plain object, and the node causes no load (when it is the only
\* token of the payload, the row of u is the only row read).
C25_SelfTokenKept ==
  (result.op = "load" /\ Done) =>
     \A k \in SelfKeys(result.cls, result.o) :
        /\ result.outcome = "ok" => heap[result.ret].own[k] = PlainToken(result.o)
        /\ TokenKeys(result.cls, result.o) = SelfKeys(result.cls, result.o) =>
             /\ \A i \in 1..Len(log) : log[i].e # "hit"
             /\ Cardinality({i \in 1..Len(log) : log[i].e = "select"}) = 1

\* an entity whose payload holds a plain object naming the entity itself
\* was loaded
C25_Witness ==
  /\ result.op = "load" /\ result.outcome = "ok"
  /\ SelfKeys(result.cls, result.o) # {}
  /\ TokenKeys(result.cls, result.o) = SelfKeys(result.cls, result.o)

\* C26: when a load raised a failure, at any depth, the top-level load
\* fails and returns nothing; in a load that returns, every token of a
\* registered type in the payload of every instance built became an
\* instance: no field was set to null in its place.
C26_LoadFailsWhole ==
  (result.op \in {"load", "loadAll"} /\ Done) =>
     /\ (\E i \in 1..Len(log) : log[i].e = "throw") =>
           /\ result.outcome # "ok"
           /\ result.ret = 0
           /\ result.op = "loadAll" => result.rets = <<>>
     /\ result.outcome = "ok" =>
           /\ Missing = {}
           /\ \A x \in Loaded : \A k \in TokenKeys(heap[x].cls, uuidOf(heap, x)) :
                 heap[x].own[k].k = "ref"

\* a load by criteria selected an entity, read its row and failed on the
\* token of another entity in it
C26_Witness ==
  /\ result.op = "loadAll" /\ Done /\ result.outcome # "ok"
  /\ \E i, j \in 1..Len(log) :
        /\ i < j
        /\ log[i].e = "select" /\ ClassOf(log[i].a) = result.cls
        /\ log[j].e = "throw" /\ ClassOf(log[j].b) # result.cls

\* a column storage type for which no toDBValue is declared
NoToDBValue(type) ==
  type \notin DOMAIN DBTypeConversions \/ DBTypeConversions[type].toDBValue = ""

\* a column storage type for which no toJSValue is declared
NoToJSValue(type) ==
  type \notin DOMAIN DBTypeConversions \/ DBTypeConversions[type].toJSValue = ""

\* the columns of class c that hold a scalar of the storage types TEXT,
\* INTEGER, REAL, ...: not a foreign key, not the payload
ScalarColumns(c) ==
  {i \in 1..Len(tableInfo[c]) : ~tableInfo[c][i].fk /\ tableInfo[c][i].name # "flatter"}

\* C27: when the storage type of a column has no toDBValue, a save of an
\* entity that embeds nothing succeeds and its row holds the value of the
\* field in that column as it is; when the storage type of the column of a
\* payload key has no toJSValue, the instance a load returns holds the
\* stored value as it is. This holds whatever the storage type is.
C27_NoConversionUnchanged ==
  [][(Running /\ result'.outcome # "running") =>
       /\ (result.op = "save" /\ NoEmbedded(heap[result.o].own)) =>
            \A i \in ScalarColumns(result.cls) :
               NoToDBValue(tableInfo[result.cls][i].type) =>
                  /\ result'.outcome = "ok"
                  /\ \E r \in RowsOf(rows', tablename(result.cls), uuidOf(heap, result.o)) :
                        r.vals[i] = ScalarJSON(Get(result.o, tableInfo[result.cls][i].name))
       /\ (result.op = "load" /\ result'.outcome = "ok") =>
            \A r \in RowsOf(rows, tablename(result.cls), result.o) :
               \A k \in DOMAIN heap[result.ret].own :
                  (/\ k \in Columns(result.cls)
                   /\ NoToJSValue(ColumnType(result.cls, k))
                   /\ Prop(Payload(result.cls, r), k).k \in {"str", "num", "iso", "null"}) =>
                     heap[result.ret].own[k] = Revive(Prop(Payload(result.cls, r), k))
    ]_vars

\* the columns of class c of storage type DATETIME
DatetimeColumns(c) ==
  {i \in 1..Len(tableInfo[c]) : tableInfo[c][i].type = "DATETIME"}

\* C28: the DATETIME conversions are inverse to each other: toJSValue
\* applied to what toDBValue stored in a DATETIME column of a saved entity
\* is the timestamp the field held when the entity was saved.
C28_DatetimeRoundTrip ==
  ~Running =>
     \A c \in Classes : \A r \in rows[tablename(c)] : \A i \in DatetimeColumns(c) :
        saved[r.uuid] # NoSnapshot =>
           toJSValue(c, tableInfo[c][i].name, r.vals[i])
             = saved[r.uuid][tableInfo[c][i].name]

\* ------------------------------------------------- the type registry
\* a declaration that would keep, of the definition it replaces, the
\* conversions the new definition does not give
declareMerge(reg, aType, aDefinition) ==
  [t \in DOMAIN reg \cup {aType} |->
     IF t # aType THEN reg[t]
     ELSE IF t \notin DOMAIN reg THEN aDefinition
     ELSE [f \in DOMAIN aDefinition |->
             IF aDefinition[f] = "" THEN reg[t][f] ELSE aDefinition[f]]]

\* theClass.DBTypeConversions[ aType ] = aDefinition
declare(reg, aType, aDefinition) ==
  [t \in DOMAIN reg \cup {aType} |-> IF t = aType THEN aDefinition ELSE reg[t]]

\* the classes declareDBType can be called on
Declarers == {"Flatter"} \cup Classes

\* c.declareDBType(aType, aDefinition): DBTypeConversions is the one static
\* field of Flatter, which every subclass reads through its constructor
declareDBType(c, aType, aDefinition) ==
  /\ ~Running
  /\ DBTypeConversions' = declare(DBTypeConversions, aType, aDefinition)
  /\ result' = [op |-> "declare", o |-> 0, cls |-> c, outcome |-> "ok", ret |-> 0,
                rets |-> <<>>, args |-> << [type |-> aType, def |-> aDefinition] >>]
  /\ ops' = ops + 1
  /\ UNCHANGED <<heap, decl, schema, process, tableInfo, TypeCache, rows, sp, stack,
                 cache, exc, log, pre, saved>>

\* the definitions the application declares, and the names it declares
\* them under
Definitions ==
  { [toPlaceholder |-> "", toDBValue |-> "", toJSValue |-> ""],
    [toPlaceholder |-> "", toDBValue |-> "julian", toJSValue |-> ""],
    [toPlaceholder |-> "", toDBValue |-> "", toJSValue |-> "Date"] }

DeclaredTypes == {"INTEGER", "REAL"}

\* classes with a numeric field: the application declares conversions,
\* saves entities and loads them
InitTypes ==
  \E rd \in {[A |-> "object", B |-> "object"], [A |-> "none", B |-> "none"]},
     nd \in {"integer", "mixed"} :
     /\ nd = "mixed" => rd.A = "object"
     /\ heap \in TypedGraphs(Decl(rd, nd))
     /\ Boot(Decl(rd, nd))

NextTypes ==
  \/ \E c \in Declarers, t \in DeclaredTypes, def \in Definitions :
        ops < MaxOps /\ declareDBType(c, t, def)
  \/ \E o \in Objs : ops < MaxOps /\ result.op # "load" /\ TopSave(o)
  \/ ops < MaxOps /\ result.op = "save" /\ TopLoad(result.cls, uuidOf(heap, result.o))
  \/ parse
  \/ reviver
  \/ loadReturn
  \/ Step

SpecTypes == InitTypes /\ [][NextTypes]_vars

\* the value dbValues gives a column of storage type type for the value v
\* of a field that holds no object, under the registry as it is
Converted(type, v) ==
  IF DBTypeConversions[type].toDBValue = "julian" THEN julian(v) ELSE ScalarJSON(v)

\* the value loadWithUUID gives a payload entry p of a column of storage
\* type type, under the registry as it is
Restored(type, p) ==
  IF type \in DOMAIN DBTypeConversions /\ DBTypeConversions[type].toJSValue = "Date"
  THEN NewDate(p)
  ELSE Revive(p)

\* C29: there is one registry of conversions. A declareDBType called on
\* any class sets the definition of the name to exactly the definition
\* given, whatever was declared under that name before, and leaves every
\* other name as it was; and every save and load, of an entity of any
\* class, converts with the registry as the last declaration left it.
C29_GlobalRegistry ==
  [][/\ (result'.op = "declare" /\ ops' # ops) =>
          LET d == result'.args[1]
          IN /\ DOMAIN DBTypeConversions' = DOMAIN DBTypeConversions \cup {d.type}
             /\ DBTypeConversions'[d.type] = d.def
             /\ \A t \in DOMAIN DBTypeConversions \ {d.type} :
                   DBTypeConversions'[t] = DBTypeConversions[t]
     /\ (Running /\ result.op = "save" /\ result'.outcome = "ok") =>
          \A r \in RowsOf(rows', tablename(result.cls), uuidOf(heap, result.o)) :
             \A i \in ScalarColumns(result.cls) :
                Get(result.o, tableInfo[result.cls][i].name).k \notin {"ref", "plain"} =>
                   r.vals[i] = Converted(tableInfo[result.cls][i].type,
                                         Get(result.o, tableInfo[result.cls][i].name))
     /\ (Running /\ result.op = "load" /\ result'.outcome = "ok") =>
          \A r \in RowsOf(rows, tablename(result.cls), result.o) :
             heap[result'.ret].own.name
               = Restored(ColumnType(result.cls, "name"),
                          Prop(Payload(result.cls, r), "name"))
    ]_vars

\* a subclass redeclares, without a toDBValue, a name that was declared
\* with one, after an entity of the other class was saved with it
C29_Witness ==
  /\ result.op = "declare" /\ result.cls = "A"
  /\ DBTypeConversions[result.args[1].type].toDBValue = ""
  /\ \E r \in rows[tablename("B")] : \E i \in ScalarColumns("B") :
        /\ tableInfo["B"][i].type = result.args[1].type
        /\ r.vals[i].k = "julian"

\* C30: init of a class the body of which declares no field fails with a
\* schema error, and the database holds the tables it held before.
C30_SchemaError ==
  [][(result'.op = "init" /\ TypeCache' # TypeCache
      /\ ClassBody(result'.cls, decl) = <<>>) =>
        /\ result'.outcome = "SchemaError"
        /\ schema' = schema
    ]_vars

\* the aggregate (OBJECT) columns of a table with the columns fs
ObjectFields(fs) ==
  {i \in 1..Len(fs) : TRowInfo(fs[i]).type = "OBJECT"}

\* C31: every table init created has exactly one OBJECT column, whatever
\* the initializers of the fields of the class are.
C31_OneAggregateColumn ==
  \A t \in Tables :
     schema[t] # NoTable => Cardinality(ObjectFields(schema[t])) = 1

\* C32: a top-level save starts from an empty cache: when it returns, it
\* has written the entity and every entity reachable from it in this call,
\* also when an earlier top-level save wrote them; a top-level loadWithUUID
\* that returns has read the row of the identifier in this call and returns
\* an instance created in this call.
C32_CachePerCall ==
  /\ (result.op = "save" /\ result.outcome = "ok") =>
        \A p \in Reachable(heap, result.o) : WritesOf(uuidOf(heap, p)) >= 1
  /\ (result.op = "load" /\ result.outcome = "ok") =>
        /\ \E i \in 1..Len(log) : log[i].e = "select" /\ log[i].a = result.o
        /\ \E i \in 1..Len(log) :
              log[i].e = "new" /\ log[i].o = result.ret /\ log[i].a = result.o

\* a top-level save returned that wrote an entity and a nested entity, the
\* rows of which an earlier top-level save had written
C32_Witness ==
  /\ result.op = "save" /\ result.outcome = "ok"
  /\ Cardinality({uuidOf(heap, p) : p \in Reachable(heap, result.o)}) >= 2
  /\ \A p \in Reachable(heap, result.o) :
        /\ RowsOf(pre.rows, tablename(heap[p].cls), uuidOf(heap, p)) # {}
        /\ WritesOf(uuidOf(heap, p)) = 1

\* C33: when a top-level save has returned or thrown, the savepoint stack
\* of the connection is as deep as it was before the call, and when the
\* save returned true, what it wrote is committed.
C33_CheckpointsClosed ==
  (result.op = "save" /\ Done) =>
     /\ Len(sp) = Len(pre.sp)
     /\ result.outcome = "ok" => Committed(rows, sp) = rows

\* a JSON object with the properties of a token of an entity class
IsToken(j) ==
  /\ j.k = "obj"
  /\ Prop(j.p, "class").k = "str" /\ Prop(j.p, "class").v \in Classes
  /\ Prop(j.p, "uuid").k = "str"

\* the tokens in a stored value, at any depth, as <<class, uuid>>
RECURSIVE TokensIn(_)
TokensIn(j) ==
  IF j.k # "obj" THEN {}
  ELSE (IF IsToken(j) THEN {<<Prop(j.p, "class").v, Prop(j.p, "uuid").v>>} ELSE {})
       \cup UNION {TokensIn(j.p[i][2]) : i \in 1..Len(j.p)}

\* the tokens in the row the write at position i of the log left
TokensWritten(i) ==
  UNION {UNION {TokensIn(r.vals[k]) : k \in 1..Len(r.vals)} :
           r \in RowsOf(rows, tablename(heap[log[i].o].cls), log[i].a)}

\* C34: when a top-level save has returned true, every token in a value of
\* a row it wrote names a row that exists in the table of the class of the
\* token.
C34_TokensHaveRows ==
  (result.op = "save" /\ result.outcome = "ok") =>
     \A i \in 1..Len(log) :
        log[i].e = "write" =>
           \A t \in TokensWritten(i) : RowsOf(rows, tablename(t[1]), t[2]) # {}

\* a save returned true that wrote a row holding the token of another
\* entity
C34_Witness ==
  /\ result.op = "save" /\ result.outcome = "ok"
  /\ \E i \in 1..Len(log) :
        /\ log[i].e = "write"
        /\ \E t \in TokensWritten(i) : t[2] # log[i].a

\* no entity reachable from o is reachable from itself
Acyclic(o) ==
  \A p \in Reachable(heap, o) :
     p \notin ReachFrom(heap, Embedded(heap, p), Len(heap))

\* the positions of the log at which a row was written
Writes == {i \in 1..Len(log) : log[i].e = "write"}

\* C35: in a save cascade over an acyclic graph, when the row of an entity
\* is written the row of every entity it embeds has been written before in
\* the same cascade, and when the save returns true the row of the
\* top-level entity is the last one written.
C35_ChildrenFirst ==
  (result.op = "save" /\ Acyclic(result.o)) =>
     /\ \A j \in Writes : \A p \in Embedded(heap, log[j].o) :
           \E i \in Writes : i < j /\ log[i].a = uuidOf(heap, p)
     /\ result.outcome = "ok" =>
           \A j \in Writes : \E i \in Writes : i >= j /\ log[i].o = result.o

\* a save of an entity that embeds an entity that embeds a third one
\* returned true
C35_Witness ==
  /\ result.op = "save" /\ result.outcome = "ok" /\ Acyclic(result.o)
  /\ \E p \in Embedded(heap, result.o) : Embedded(heap, p) \ {p} # {}
  /\ Cardinality(Writes) = 3

\* the entities a field of which holds the entity itself
SelfReferencing == {o \in 1..Len(heap) : o \in Embedded(heap, o)}

Unconvertible ==
  {c \in Classes : \E i \in 1..Len(tableInfo[c]) :
      tableInfo[c][i].type \notin DOMAIN DBTypeConversions \cup TypeCache}

\* the event a step added to the log of the running call, if any
Logged(lg, lg2) ==
  IF Len(lg2) > 0 /\ lg2 # lg THEN {lg2[Len(lg2)]} ELSE {}

\* C37: a save of an entity of a class with such a column, called by the
\* application or in a cascade, throws before it opens a savepoint: the
\* step in which it fails leaves the rows, the savepoint stack and the
\* cache as they are, no save of such an entity ever opens a savepoint,
\* writes a row or returns true, and a top-level save of it ends with the
\* rows and the savepoint stack it started with.
C37_FailsBeforeCheckpoint ==
  [][/\ \A ev \in Logged(log, log') :
          /\ (ev.e = "throw" /\ ev.a = "placeholders") =>
                /\ heap[ev.o].cls \in Unconvertible
                /\ rows' = rows /\ sp' = sp /\ cache' = cache
                /\ exc' = "TypeError"
          /\ (ev.e \in {"savepoint", "skip", "write"} /\ ev.o \in 1..Len(heap)) =>
                heap[ev.o].cls \notin Unconvertible
     /\ (result'.op = "save" /\ ops' # ops /\ result'.cls \in Unconvertible) =>
          exc' = "TypeError" /\ rows' = rows /\ sp' = sp
     /\ (Running /\ result.op = "save" /\ result'.outcome # "running"
         /\ result.cls \in Unconvertible) =>
          result'.outcome = "TypeError" /\ rows' = pre.rows /\ sp' = pre.sp
    ]_vars

\* a cascade reached an entity of such a class, with savepoints open and
\* entities in the cache, and its save failed
C37_Witness ==
  /\ result.op = "save" /\ exc = "TypeError" /\ stack # <<>>
  /\ sp # <<>>
  /\ Len(log) > 0
  /\ log[Len(log)].e = "throw" /\ log[Len(log)].a = "placeholders"
  /\ heap[log[Len(log)].o].cls \in Unconvertible
  /\ log[Len(log)].o # result.o

\* C38: from the call of a loadWithUUID or load(criteria) on, through
\* every nested load, and when it has returned or thrown, the rows of every
\* table and the savepoint stack are what they were when it was called.
C38_LoadLeavesStore ==
  (result.op \in {"load", "loadAll"} /\ result.outcome # "none") =>
     /\ rows = pre.rows
     /\ sp = pre.sp

\* a load by criteria that resolved a token by a nested load has returned,
\* on a store that holds rows
C38_Witness ==
  /\ result.op = "loadAll" /\ result.outcome = "ok"
  /\ rows # NoRows
  /\ \E i \in 1..Len(log) : log[i].e = "new" /\ ClassOf(log[i].a) # result.cls

====
